---- MODULE Spec2Model ----
(***************************************************************************)
(* Session / lifecycle state machine of the Powerlift gym application:     *)
(* the SessionManager component (idle timer, warning countdown, AppState   *)
(* listener, photo-operation flag), the AppProvider authentication state   *)
(* and the PIN gate.                                                       *)
(*                                                                         *)
(* The repository holds two revisions of SessionManager.tsx (the           *)
(* photoOperationRef one, lines 219-437, and the isPhotoOperationScreenRef *)
(* one, lines 1-217) and two revisions of AppProvider (with and without    *)
(* the RNAppState listener).  `version` and `lifecycle` say which ones are *)
(* mounted; they are chosen at start-up and never change.                  *)
(*                                                                         *)
(* Time is measured in milliseconds.  It advances by the countdown period  *)
(* (TICK_MS) while the countdown interval runs and by IdleQuantum (or up   *)
(* to the idle deadline) otherwise.  Timers shorter than one period (0,    *)
(* 50, 150, 500 ms) are pending callbacks that run before the next Advance.*)
(*                                                                         *)
(* The warning Modal is full-screen (SessionManager.tsx 374-434): while it *)
(* is shown the screens beneath receive no input, so PIN entry, screen     *)
(* navigation, photo operations and settings changes wait until it hides.  *)
(***************************************************************************)
EXTENDS Integers, FiniteSets, Sequences, TLC

\* ---------------------------------------------------------------- constants
IDLE_TIME == 2 * 60 * 1000
COUNTDOWN_SECONDS == 10
TICK_MS == 1000

\* ------------------------------------------------------------------- bounds
MaxLogouts == 2      \* safeLogout invocations whose deferred steps are pending
MaxResets == 2       \* photo screens mounted or with their 500 ms flag reset pending
MaxPin == 2          \* PINs are 1..MaxPin
IdleSteps == 3       \* Advance steps an undisturbed idle timeout takes to expire

Pins == 1..MaxPin
NoPin == 0
PhotoScreens == {"Register", "MemberDetail"}
NoTimer == 0 - 1
IdleQuantum == IDLE_TIME \div IdleSteps
Min(a, b) == IF a < b THEN a ELSE b

\* PinScreen checkExistingPin on mount: a stored PIN is loaded; no stored PIN,
\* or a read that throws, switches the screen to PIN creation
checkExistingPin(readOk, saved) ==
    IF readOk /\ saved # NoPin
    THEN [storedPin |-> saved, isCreating |-> FALSE]
    ELSE [storedPin |-> NoPin, isCreating |-> TRUE]

VARIABLES
    version,          \* "ref": photoOperationRef revision, "screen": isPhotoOperationScreenRef revision
    lifecycle,        \* TRUE: AppProvider registers its own RNAppState listener
    appState,         \* what the OS last reported: "active", "inactive", "background"
    isAuthenticated,  \* AppProvider state.isAuthenticated
    timeoutDisabled,  \* AppProvider state.timeoutDisabled
    appWentToBackground, \* AppProvider state.appWentToBackground
    showModal,        \* SessionManager showModal
    countdown,        \* SessionManager countdown
    idleTimer,        \* ms left of the scheduled idle timeout, NoTimer when none is scheduled
    countdownTimer,   \* the interval countdownTimer.current refers to: "live", or "none" (null or cleared)
    tickDue,          \* the interval's period has elapsed and its callback has not run yet
    orphanTickers,    \* live intervals countdownTimer.current no longer refers to
    photoFlag,        \* photoOperationRef.current / isPhotoOperationScreenRef.current
    logoutPending,    \* scheduled 0 ms callbacks of safeLogout
    navPending,       \* scheduled 150 ms callbacks of safeLogout
    stayPending,      \* scheduled 50 ms callbacks of handleStay, each with the closure it captured
    mounted,          \* photo-operation screens currently mounted
    resetPending,     \* scheduled 500 ms flag resets
    storedPin,        \* PinScreen storedPin (NoPin: null)
    pin,              \* PinScreen pin, the entered input (NoPin: empty)
    isCreating,       \* PinScreen isCreating
    securePin,        \* the PIN kept by SecureStore / localStorage (NoPin: none)
    error,            \* PinScreen error
    handledBg,        \* the last visibility event SessionManager handled was "background"
    exempt,           \* history: "used" once a foreground return of this session skipped the PIN and the flag has not been set since, else "none"
    camera,           \* history: "launching" once takePhoto / pickImage started the picker, "open" while the
                      \* app is in the background because the picker took over, "idle" otherwise
    suspended,        \* history: "bg" after a "background" that cut a running countdown short, "fg" after the
                      \* "active" that followed it found no exemption, "no" otherwise and once the session ended
    elapsed,          \* history: ms since the idle timeout was last scheduled (0 when none is)
    ticks             \* history: callbacks the live interval has run since it was started (0 when none is live)

\* the data layer: the SQLite store and the lists AppProvider keeps in memory
VARIABLES
    dbMembers,        \* rows of table members: [id, qr_code, is_member]
    dbAttendance,     \* rows of table attendance: [id, member_id]
    dbSales,          \* rows of table sales: [id, amount]
    members,          \* state.members, newest first
    attendance,       \* state.attendance, newest first
    sales,            \* state.sales, newest first
    adding,           \* the addAttendance / addSale call in flight: its data and its `retries`, or NoAdd
    backup,           \* the parsed string backupAllData returned last, or NoBackup
    last              \* history: the operation that finished last and whether it returned (ok) or threw

dataVars == <<dbMembers, dbAttendance, dbSales, members, attendance, sales,
              adding, backup, last>>

sessionVars == <<version, lifecycle, appState, isAuthenticated, timeoutDisabled,
                 appWentToBackground, showModal, countdown, idleTimer, countdownTimer,
                 tickDue, orphanTickers, photoFlag, logoutPending, navPending,
                 stayPending, mounted, resetPending, storedPin, pin, isCreating,
                 securePin, error, handledBg, exempt, camera, suspended, elapsed, ticks>>

NoAdd == [kind |-> "none"]
NoBackup == [taken |-> FALSE]
NoOp == [op |-> "none", ok |-> TRUE]

\* the data layer before any operation: empty tables, empty lists
DataStart ==
    /\ dbMembers = {} /\ dbAttendance = {} /\ dbSales = {}
    /\ members = <<>> /\ attendance = <<>> /\ sales = <<>>
    /\ adding = NoAdd /\ backup = NoBackup /\ last = NoOp

vars == <<version, lifecycle, appState, isAuthenticated, timeoutDisabled,
          appWentToBackground, showModal, countdown, idleTimer, countdownTimer,
          tickDue, orphanTickers, photoFlag, logoutPending, navPending,
          stayPending, mounted, resetPending, storedPin, pin, isCreating, securePin, error,
          handledBg, exempt, camera, suspended, elapsed, ticks, dataVars>>

Closures == [auth : BOOLEAN, disabled : BOOLEAN]

TypeOK ==
    /\ version \in {"ref", "screen"}
    /\ lifecycle \in BOOLEAN
    /\ appState \in {"active", "inactive", "background"}
    /\ isAuthenticated \in BOOLEAN
    /\ timeoutDisabled \in BOOLEAN
    /\ appWentToBackground \in BOOLEAN
    /\ showModal \in BOOLEAN
    /\ countdown \in 0..COUNTDOWN_SECONDS
    /\ idleTimer \in Int /\ idleTimer >= NoTimer /\ idleTimer <= IDLE_TIME
    /\ countdownTimer \in {"none", "live"}
    /\ tickDue \in BOOLEAN
    /\ orphanTickers \in Nat
    /\ photoFlag \in BOOLEAN
    /\ logoutPending \in Nat
    /\ navPending \in Nat
    /\ stayPending \subseteq Closures
    /\ mounted \subseteq PhotoScreens
    /\ resetPending \in 0..MaxResets
    /\ storedPin \in Pins \cup {NoPin}
    /\ pin \in Pins \cup {NoPin}
    /\ isCreating \in BOOLEAN
    /\ securePin \in Pins \cup {NoPin}
    /\ error \in {"", "Incorrect PIN", "PINs do not match", "Failed to save PIN"}
    /\ handledBg \in BOOLEAN
    /\ exempt \in {"none", "used"}
    /\ suspended \in {"no", "bg", "fg"}
    /\ camera \in {"idle", "launching", "open"}
    /\ elapsed \in Int /\ elapsed >= 0 /\ elapsed <= IDLE_TIME
    /\ ticks \in 0..COUNTDOWN_SECONDS

Init ==
    /\ DataStart
    /\ version \in {"ref", "screen"}
    /\ lifecycle \in BOOLEAN
    /\ appState = "active"
    /\ isAuthenticated = FALSE
    /\ timeoutDisabled = FALSE
    /\ appWentToBackground = FALSE
    /\ showModal = FALSE
    /\ countdown = COUNTDOWN_SECONDS
    /\ idleTimer = NoTimer
    /\ countdownTimer = "none"
    /\ tickDue = FALSE
    /\ orphanTickers = 0
    /\ photoFlag = FALSE
    /\ logoutPending = 0
    /\ navPending = 0
    /\ stayPending = {}
    /\ mounted = {}
    /\ resetPending = 0
    /\ securePin \in {NoPin, 1}
    /\ \E readOk \in BOOLEAN :
          /\ storedPin = checkExistingPin(readOk, securePin).storedPin
          /\ isCreating = checkExistingPin(readOk, securePin).isCreating
    /\ pin = NoPin
    /\ error = ""
    /\ handledBg = FALSE
    /\ exempt = "none"
    /\ suspended = "no"
    /\ camera = "idle"
    /\ elapsed = 0
    /\ ticks = 0


\* ------------------------------------------------------- SessionManager code

\* setPhotoOperationInProgress / setIsPhotoOperationScreen: the flag takes the value given
setFlag(value) == value

\* the listener's test `if (photoOperationRef.current)` / `if (isPhotoOperationScreenRef.current)`
skipsLogout_always(flag) == TRUE
skipsLogout(flag) == flag

\* setAuthenticated(value): the context's isAuthenticated after the call
setAuthenticated_stuck(value) == TRUE
setAuthenticated(value) == value

\* the flag after a foreground return that skipped the logout:
\* `photoOperationRef.current = false` in the one revision, nothing in the other
flagAfterSkip(v, flag) == IF v = "ref" THEN FALSE ELSE flag

\* clearInterval(countdownTimer.current) stops the interval the ref points to
clearInterval_keeps(ct) == ct
clearInterval(ct) == "none"

\* resetIdleTimer as seen through a closure over (isAuthenticated, timeoutDisabled):
\* the idle timeout scheduled afterwards
resetIdleTimer_short(auth, disabled, idle) ==
    IF ~auth \/ disabled THEN idle ELSE IdleQuantum
resetIdleTimer(auth, disabled, idle) ==
    IF ~auth \/ disabled THEN idle ELSE IDLE_TIME

\* handleUserInteraction: resets the idle timer only while the modal is hidden
handleUserInteraction_always(auth, disabled, modal, idle) ==
    IF ~auth \/ disabled THEN idle ELSE IDLE_TIME
handleUserInteraction_ignored(auth, disabled, modal, idle) == idle
handleUserInteraction(auth, disabled, modal, idle) ==
    IF ~auth \/ disabled THEN idle
    ELSE IF ~modal THEN resetIdleTimer(auth, disabled, idle)
    ELSE idle

\* the interval callback's updater: `prev <= 1` ends the countdown, `prev - 1` is the new value
countdownExpired_early(prev) == prev <= 2
countdownExpired(prev) == prev <= 1
countdownNext_double(prev) == prev - 2
countdownNext(prev) == prev - 1

\* "Start timer when logged in" effect, run when isAuthenticated or timeoutDisabled
\* changed: the previous run's cleanup, then the new run's body
timerEffect_keeps(prevAuth, newAuth, newDisabled, idle, ct) ==
    [idle |-> idle, ct |-> ct]
timerEffect(prevAuth, newAuth, newDisabled, idle, ct) ==
    LET idle1 == IF prevAuth THEN NoTimer ELSE idle
        ct1 == IF prevAuth THEN clearInterval(ct) ELSE ct
    IN IF ~newAuth
       THEN [idle |-> NoTimer, ct |-> clearInterval(ct1)]
       ELSE [idle |-> resetIdleTimer(newAuth, newDisabled, idle1), ct |-> ct1]

\* history bookkeeping --------------------------------------------------------
Shorts(nav, stay, reset) == nav + Cardinality(stay) + reset
ticksAfter(ct) == IF ct = "live" THEN ticks ELSE 0
elapsedAfter(oldIdle, newIdle) ==
    IF newIdle = NoTimer THEN 0
    ELSE IF newIdle = oldIdle THEN elapsed
    ELSE 0

\* PinScreen handleSubmit's comparison with the loaded PIN
pinMatches_any(entered, stored) == TRUE
pinMatches(entered, stored) == entered = stored

\* the AppState listener effect subscribes only while isAuthenticated
subscribed_always(auth) == TRUE
subscribed(auth) == auth

\* ------------------------------------------------------------------ actions

\* The root navigator shows PinScreen exactly while isAuthenticated is false
\* (handleSubmit only calls setAuthenticated(true) and never navigates):
\* PinScreen mounts, and runs checkExistingPin, when isAuthenticated turns
\* false, and unmounts, dropping its state, when it turns true.  The screens
\* of the authenticated app unmount when isAuthenticated turns false, each
\* mounted photo screen running its effect cleanup.
PinScreenFollows(authBefore, authAfter) ==
    IF authBefore /\ ~authAfter
    THEN \E readOk \in BOOLEAN :
           /\ storedPin' = checkExistingPin(readOk, securePin).storedPin
           /\ isCreating' = checkExistingPin(readOk, securePin).isCreating
           /\ pin' = NoPin
           /\ error' = ""
    ELSE IF ~authBefore /\ authAfter
    THEN /\ storedPin' = NoPin
         /\ isCreating' = FALSE
         /\ pin' = NoPin
         /\ error' = ""
    ELSE UNCHANGED <<storedPin, isCreating, pin, error>>

MainScreensFollow(authBefore, authAfter) ==
    IF authBefore /\ ~authAfter
    THEN /\ mounted' = {}
         /\ resetPending' = resetPending + Cardinality(mounted)
    ELSE UNCHANGED <<mounted, resetPending>>

\* the OS reports "background": AppProvider's listener, then SessionManager's
OsBackground ==
    /\ appState \in {"active", "inactive"}
    /\ appState' = "background"
    /\ appWentToBackground' = IF lifecycle THEN TRUE ELSE appWentToBackground
    /\ IF subscribed(isAuthenticated)
       THEN /\ idleTimer' = NoTimer
            /\ countdownTimer' = clearInterval(countdownTimer)
            /\ tickDue' = FALSE
            /\ showModal' = FALSE
            /\ elapsed' = 0
       ELSE UNCHANGED <<idleTimer, countdownTimer, tickDue, showModal, elapsed>>
    /\ handledBg' = subscribed(isAuthenticated)
    /\ ticks' = ticksAfter(countdownTimer')
    /\ suspended' = IF isAuthenticated /\ showModal /\ countdownTimer = "live" THEN "bg" ELSE suspended
    /\ UNCHANGED <<pin, isCreating, securePin>>
    /\ camera' \in IF camera = "launching" THEN {"open", "idle"} ELSE {"idle"}
    /\ UNCHANGED <<dataVars, version, lifecycle, isAuthenticated, timeoutDisabled, countdown,
                   orphanTickers, photoFlag, logoutPending, navPending, stayPending,
                   mounted, resetPending, storedPin, error, exempt>>

\* the OS reports "inactive": neither listener has a branch for it
OsInactive ==
    /\ appState = "active"
    /\ appState' = "inactive"
    /\ UNCHANGED suspended
    /\ UNCHANGED <<pin, isCreating, securePin>>
    /\ UNCHANGED camera
    /\ UNCHANGED <<dataVars, version, lifecycle, isAuthenticated, timeoutDisabled,
                   appWentToBackground, showModal, countdown, idleTimer, countdownTimer,
                   tickDue, orphanTickers, photoFlag, logoutPending, navPending,
                   stayPending, mounted, resetPending, storedPin, error,
                   handledBg, exempt, elapsed, ticks>>

\* the OS reports "active": AppProvider's listener (when registered) clears
\* isAuthenticated; SessionManager's listener (registered while authenticated)
\* skips or calls safeLogout; then the effects of the new render run
OsActive ==
    /\ appState \in {"background", "inactive"}
    /\ LET skip == subscribed(isAuthenticated) /\ skipsLogout(photoFlag)
           logout == subscribed(isAuthenticated) /\ ~skip
           authAfter == IF lifecycle THEN FALSE ELSE isAuthenticated
           eff == IF authAfter # isAuthenticated
                  THEN timerEffect(isAuthenticated, authAfter, timeoutDisabled,
                                   idleTimer, countdownTimer)
                  ELSE [idle |-> idleTimer, ct |-> countdownTimer]
       IN /\ logout => logoutPending + navPending < MaxLogouts
          /\ appState' = "active"
          /\ appWentToBackground' = IF lifecycle THEN FALSE ELSE appWentToBackground
          /\ isAuthenticated' = authAfter
          /\ photoFlag' = IF skip THEN flagAfterSkip(version, photoFlag) ELSE photoFlag
          /\ showModal' = IF logout THEN FALSE ELSE showModal
          /\ logoutPending' = IF logout THEN logoutPending + 1 ELSE logoutPending
          /\ idleTimer' = eff.idle
          /\ countdownTimer' = eff.ct
          /\ tickDue' = (tickDue /\ eff.ct = "live")
          /\ elapsed' = elapsedAfter(idleTimer, eff.idle)
          /\ exempt' = IF ~authAfter THEN "none"
                       ELSE IF skip THEN "used"
                       ELSE exempt
    /\ handledBg' = FALSE
    /\ ticks' = ticksAfter(countdownTimer')
    /\ suspended' = IF suspended = "bg" /\ isAuthenticated /\ ~skipsLogout(photoFlag) /\ ~lifecycle
                    THEN "fg" ELSE "no"
    /\ PinScreenFollows(isAuthenticated, isAuthenticated')
    /\ MainScreensFollow(isAuthenticated, isAuthenticated')
    /\ camera' = "idle"
    /\ UNCHANGED <<dataVars, version, lifecycle, timeoutDisabled, countdown, orphanTickers,
                   navPending, stayPending, securePin>>

\* safeLogout's 0 ms callback: setAuthenticated(false), schedule the navigation
LogoutStep ==
    /\ logoutPending > 0
    /\ LET eff == IF isAuthenticated
                  THEN timerEffect(isAuthenticated, FALSE, timeoutDisabled,
                                   idleTimer, countdownTimer)
                  ELSE [idle |-> idleTimer, ct |-> countdownTimer]
       IN /\ isAuthenticated' = setAuthenticated(FALSE)
          /\ idleTimer' = eff.idle
          /\ countdownTimer' = eff.ct
          /\ tickDue' = (tickDue /\ eff.ct = "live")
          /\ elapsed' = elapsedAfter(idleTimer, eff.idle)
    /\ logoutPending' = logoutPending - 1
    /\ navPending' = navPending + 1
    /\ exempt' = "none"
    /\ ticks' = ticksAfter(countdownTimer')
    /\ suspended' = "no"
    /\ PinScreenFollows(isAuthenticated, FALSE)
    /\ MainScreensFollow(isAuthenticated, FALSE)
    /\ UNCHANGED camera
    /\ UNCHANGED <<dataVars, version, lifecycle, appState, timeoutDisabled, appWentToBackground,
                   showModal, countdown, orphanTickers, photoFlag, stayPending,
                   securePin, handledBg>>

\* isAuthenticated after the 150 ms callback ran navigation.dispatch, which
\* returned (ok) or threw: the dispatch is the callback's only statement and
\* setAuthenticated(false) was called by the task that scheduled it
dispatchOutcome_rollback(ok, auth) == IF ok THEN auth ELSE TRUE
dispatchOutcome(ok, auth) == auth

\* safeLogout's 150 ms callback: navigation.dispatch(navigate("Pin"))
NavigateStep ==
    \E ok \in BOOLEAN :
    /\ navPending > 0
    /\ navPending' = navPending - 1
    /\ isAuthenticated' = dispatchOutcome(ok, isAuthenticated)
    /\ UNCHANGED camera
    /\ UNCHANGED <<dataVars, version, lifecycle, appState, timeoutDisabled,
                   appWentToBackground, showModal, countdown, idleTimer, countdownTimer,
                   tickDue, orphanTickers, photoFlag, logoutPending, stayPending, mounted,
                   resetPending, storedPin, pin, isCreating, securePin, error,
                   handledBg, exempt, suspended, elapsed, ticks>>

\* how much time the next Advance lets go by
Step ==
    IF countdownTimer = "live" \/ idleTimer <= 0 THEN TICK_MS
    ELSE Min(IdleQuantum, idleTimer)

\* wall-clock time goes by; callbacks that are due run first
Advance ==
    /\ logoutPending = 0
    /\ idleTimer # 0
    /\ ~tickDue
    /\ Shorts(navPending, stayPending, resetPending) = 0
    /\ idleTimer > 0 \/ countdownTimer = "live"
    /\ idleTimer' = IF idleTimer > 0 THEN idleTimer - Min(Step, idleTimer) ELSE idleTimer
    /\ elapsed' = IF idleTimer > 0 THEN elapsed + Min(Step, idleTimer) ELSE elapsed
    /\ tickDue' = (countdownTimer = "live")
    /\ UNCHANGED suspended
    /\ UNCHANGED <<pin, isCreating, securePin>>
    /\ UNCHANGED camera
    /\ UNCHANGED <<dataVars, version, lifecycle, appState, isAuthenticated, timeoutDisabled,
                   appWentToBackground, showModal, countdown, countdownTimer,
                   orphanTickers, photoFlag, logoutPending, navPending, stayPending,
                   mounted, resetPending, storedPin, error, handledBg, exempt, ticks>>

\* the idle timeout's callback: setShowModal(true); startCountdown()
IdleTimerFires ==
    /\ idleTimer = 0
    /\ idleTimer' = NoTimer
    /\ elapsed' = 0
    /\ showModal' = TRUE
    /\ countdown' = COUNTDOWN_SECONDS
    /\ orphanTickers' = IF countdownTimer = "live" THEN orphanTickers + 1 ELSE orphanTickers
    /\ countdownTimer' = "live"
    /\ tickDue' = FALSE
    /\ ticks' = 0
    /\ UNCHANGED suspended
    /\ UNCHANGED <<pin, isCreating, securePin>>
    /\ UNCHANGED camera
    /\ UNCHANGED <<dataVars, version, lifecycle, appState, isAuthenticated, timeoutDisabled,
                   appWentToBackground, photoFlag, logoutPending, navPending, stayPending,
                   mounted, resetPending, storedPin, error, handledBg, exempt>>

\* the countdown interval's callback: the setCountdown updater
CountdownTick ==
    /\ countdownTimer = "live"
    /\ tickDue
    /\ tickDue' = FALSE
    /\ countdown' = countdownNext(countdown)
    /\ IF countdownExpired(countdown)
       THEN /\ countdownTimer' = clearInterval(countdownTimer)
            /\ showModal' = FALSE
            /\ logoutPending' = logoutPending + 1
            /\ ticks' = 0
       ELSE /\ ticks' = ticks + 1
            /\ UNCHANGED <<countdownTimer, showModal, logoutPending>>
    /\ UNCHANGED suspended
    /\ UNCHANGED <<pin, isCreating, securePin>>
    /\ UNCHANGED camera
    /\ UNCHANGED <<dataVars, version, lifecycle, appState, isAuthenticated, timeoutDisabled,
                   appWentToBackground, idleTimer, orphanTickers, photoFlag, navPending,
                   stayPending, mounted, resetPending, storedPin, error, handledBg,
                   exempt, elapsed>>

\* a press on the app surface: handleUserInteraction
UserPress ==
    /\ appState = "active"
    /\ idleTimer' = handleUserInteraction(isAuthenticated, timeoutDisabled, showModal, idleTimer)
    /\ elapsed' = IF idleTimer' = idleTimer /\ (showModal \/ ~isAuthenticated \/ timeoutDisabled)
                  THEN elapsed ELSE 0
    /\ UNCHANGED suspended
    /\ UNCHANGED <<pin, isCreating, securePin>>
    /\ UNCHANGED camera
    /\ UNCHANGED <<dataVars, version, lifecycle, appState, isAuthenticated, timeoutDisabled,
                   appWentToBackground, showModal, countdown, countdownTimer, tickDue,
                   orphanTickers, photoFlag, logoutPending, navPending, stayPending,
                   mounted, resetPending, storedPin, error, handledBg, exempt, ticks>>

\* "I'm Still Here": handleStay
HandleStay ==
    /\ appState = "active"
    /\ showModal
    /\ showModal' = FALSE
    /\ countdownTimer' = clearInterval(countdownTimer)
    /\ tickDue' = FALSE
    /\ stayPending' = stayPending \cup
           {[auth |-> isAuthenticated, disabled |-> timeoutDisabled]}
    /\ ticks' = ticksAfter(countdownTimer')
    /\ UNCHANGED suspended
    /\ UNCHANGED <<pin, isCreating, securePin>>
    /\ UNCHANGED camera
    /\ UNCHANGED <<dataVars, version, lifecycle, appState, isAuthenticated, timeoutDisabled,
                   appWentToBackground, countdown, idleTimer, orphanTickers, photoFlag,
                   logoutPending, navPending, mounted, resetPending, storedPin,
                   error, handledBg, exempt, elapsed>>

\* handleStay's 50 ms callback: resetIdleTimer() of the render that scheduled it
StayTimerFires ==
    \E c \in stayPending :
        /\ stayPending' = stayPending \ {c}
        /\ idleTimer' = resetIdleTimer(c.auth, c.disabled, idleTimer)
        /\ elapsed' = IF c.auth /\ ~c.disabled THEN 0 ELSE elapsed
        /\ UNCHANGED suspended
        /\ UNCHANGED <<pin, isCreating, securePin>>
        /\ UNCHANGED camera
        /\ UNCHANGED <<dataVars, version, lifecycle, appState, isAuthenticated, timeoutDisabled,
                       appWentToBackground, showModal, countdown, countdownTimer, tickDue,
                       orphanTickers, photoFlag, logoutPending, navPending, mounted,
                       resetPending, storedPin, error, handledBg, exempt, ticks>>

\* PinScreen handleSubmit once the digits are entered (p, and q as the
\* confirmation while creating): the creating branch stores p and
\* authenticates, the other branch compares p with the loaded PIN
Submit(p, q, saveOk) ==
    /\ appState = "active"
    /\ ~showModal
    /\ ~isAuthenticated
    /\ LET ok == IF isCreating THEN p = q /\ saveOk ELSE pinMatches(p, storedPin)
           eff == timerEffect(FALSE, TRUE, timeoutDisabled, idleTimer, countdownTimer)
       IN IF ok
          THEN /\ isAuthenticated' = TRUE
               /\ idleTimer' = eff.idle
               /\ countdownTimer' = eff.ct
               /\ elapsed' = elapsedAfter(idleTimer, eff.idle)
               /\ securePin' = IF isCreating THEN p ELSE securePin
               /\ PinScreenFollows(FALSE, TRUE)
          ELSE /\ error' = IF ~isCreating THEN "Incorrect PIN"
                           ELSE IF p # q THEN "PINs do not match"
                           ELSE "Failed to save PIN"
               /\ pin' = IF isCreating THEN p ELSE NoPin
               /\ UNCHANGED <<isAuthenticated, idleTimer, countdownTimer, elapsed,
                              securePin, storedPin, isCreating>>
    /\ ticks' = ticksAfter(countdownTimer')
    /\ UNCHANGED camera
    /\ UNCHANGED <<dataVars, version, lifecycle, appState, timeoutDisabled, appWentToBackground,
                   showModal, countdown, tickDue, orphanTickers, photoFlag,
                   logoutPending, navPending, stayPending, mounted, resetPending,
                   handledBg, exempt, suspended>>

HandleSubmit ==
    \E p \in Pins, q \in Pins, saveOk \in BOOLEAN : Submit(p, q, saveOk)

\* a screen calls the context's setTimeoutDisabled with a new value (the
\* warning modal covers the screens while it is shown)
SetTimeoutDisabled ==
    \E v \in BOOLEAN :
        /\ appState = "active"
        /\ isAuthenticated
        /\ ~showModal
        /\ v # timeoutDisabled
        /\ timeoutDisabled' = v
        /\ LET eff == timerEffect(isAuthenticated, isAuthenticated, v, idleTimer, countdownTimer)
           IN /\ idleTimer' = eff.idle
              /\ countdownTimer' = eff.ct
              /\ tickDue' = (tickDue /\ eff.ct = "live")
        /\ elapsed' = 0
        /\ ticks' = ticksAfter(countdownTimer')
        /\ UNCHANGED suspended
        /\ UNCHANGED <<pin, isCreating, securePin>>
        /\ UNCHANGED camera
        /\ UNCHANGED <<dataVars, version, lifecycle, appState, isAuthenticated, appWentToBackground,
                       showModal, countdown, orphanTickers, photoFlag, logoutPending,
                       navPending, stayPending, mounted, resetPending, storedPin,
                       error, handledBg, exempt>>

\* RegisterScreen / MemberDetailScreen of the isPhotoOperationScreenRef revision
\* mounts: its effect sets the screen flag
MountScreen ==
    \E s \in PhotoScreens \ mounted :
        /\ version = "screen"
        /\ appState = "active"
        /\ ~showModal
        /\ isAuthenticated
        /\ resetPending + Cardinality(mounted) < MaxResets
        /\ mounted' = mounted \cup {s}
        /\ photoFlag' = setFlag(TRUE)
        /\ exempt' = "none"
        /\ UNCHANGED suspended
        /\ UNCHANGED <<pin, isCreating, securePin>>
        /\ UNCHANGED camera
        /\ UNCHANGED <<dataVars, version, lifecycle, appState, isAuthenticated, timeoutDisabled,
                       appWentToBackground, showModal, countdown, idleTimer, countdownTimer,
                       tickDue, orphanTickers, logoutPending, navPending, stayPending,
                       resetPending, storedPin, error, handledBg, elapsed, ticks>>

\* the screen unmounts: its effect cleanup schedules the 500 ms reset
UnmountScreen ==
    \E s \in mounted :
        /\ appState = "active"
        /\ ~showModal
        /\ mounted' = mounted \ {s}
        /\ resetPending < MaxResets
        /\ resetPending' = resetPending + 1
        /\ UNCHANGED suspended
        /\ UNCHANGED <<pin, isCreating, securePin>>
        /\ UNCHANGED camera
        /\ UNCHANGED <<dataVars, version, lifecycle, appState, isAuthenticated, timeoutDisabled,
                       appWentToBackground, showModal, countdown, idleTimer, countdownTimer,
                       tickDue, orphanTickers, photoFlag, logoutPending, navPending,
                       stayPending, storedPin, error, handledBg, exempt, elapsed,
                       ticks>>

\* the 500 ms callback of an unmounted screen: setIsPhotoOperationScreen(false)
ResetTimerFires ==
    /\ resetPending > 0
    /\ resetPending' = resetPending - 1
    /\ photoFlag' = setFlag(FALSE)
    /\ UNCHANGED exempt
    /\ UNCHANGED suspended
    /\ UNCHANGED <<pin, isCreating, securePin>>
    /\ UNCHANGED camera
    /\ UNCHANGED <<dataVars, version, lifecycle, appState, isAuthenticated, timeoutDisabled,
                   appWentToBackground, showModal, countdown, idleTimer, countdownTimer,
                   tickDue, orphanTickers, logoutPending, navPending, stayPending, mounted,
                   storedPin, error, handledBg, elapsed, ticks>>

\* takePhoto / pickImage start the camera or the gallery; the photoOperationRef
\* revision first calls setPhotoOperationInProgress(true), the
\* isPhotoOperationScreenRef revision's screens leave the flag alone
TakePhoto ==
    /\ appState = "active"
    /\ ~showModal
    /\ isAuthenticated
    /\ version = "screen" => mounted # {}
    /\ camera = "idle"
    /\ camera' = "launching"
    /\ photoFlag' = IF version = "ref" THEN setFlag(TRUE) ELSE photoFlag
    /\ exempt' = IF version = "ref" THEN "none" ELSE exempt
    /\ UNCHANGED <<dataVars, version, lifecycle, appState, isAuthenticated, timeoutDisabled,
                   appWentToBackground, showModal, countdown, idleTimer, countdownTimer,
                   tickDue, orphanTickers, logoutPending, navPending, stayPending, mounted,
                   resetPending, storedPin, pin, isCreating, securePin, error,
                   handledBg, suspended, elapsed, ticks>>

\* the picker resolves (cancelled, or shown inside the app) without the app
\* having gone to the background
PickerReturns ==
    /\ appState = "active"
    /\ camera = "launching"
    /\ camera' = "idle"
    /\ UNCHANGED <<dataVars, version, lifecycle, appState, isAuthenticated, timeoutDisabled,
                   appWentToBackground, showModal, countdown, idleTimer, countdownTimer,
                   tickDue, orphanTickers, photoFlag, logoutPending, navPending,
                   stayPending, mounted, resetPending, storedPin, pin, isCreating,
                   securePin, error, handledBg, exempt, suspended, elapsed, ticks>>

\* the user presses the home button while the camera or gallery is open: the
\* app is already in the background and receives no event, but its later
\* return is no longer the end of a picker round trip
CameraHome ==
    /\ appState = "background"
    /\ camera = "open"
    /\ camera' = "idle"
    /\ UNCHANGED <<dataVars, version, lifecycle, appState, isAuthenticated, timeoutDisabled,
                   appWentToBackground, showModal, countdown, idleTimer, countdownTimer,
                   tickDue, orphanTickers, photoFlag, logoutPending, navPending,
                   stayPending, mounted, resetPending, storedPin, pin, isCreating,
                   securePin, error, handledBg, exempt, suspended, elapsed, ticks>>

Next ==
    \/ OsBackground
    \/ OsInactive
    \/ OsActive
    \/ LogoutStep
    \/ NavigateStep
    \/ Advance
    \/ IdleTimerFires
    \/ CountdownTick
    \/ UserPress
    \/ HandleStay
    \/ StayTimerFires
    \/ HandleSubmit
    \/ SetTimeoutDisabled
    \/ MountScreen
    \/ UnmountScreen
    \/ ResetTimerFires
    \/ TakePhoto
    \/ PickerReturns
    \/ CameraHome

Spec == Init /\ [][Next]_vars

-----------------------------------------------------------------------------
\* Vocabulary of the properties

\* a step in which the OS reports "active" after "background"
Foreground == appState = "background" /\ appState' = "active"

\* a step in which SessionManager's listener handles such a report
HandledForeground == Foreground /\ isAuthenticated /\ handledBg

\* a step in which SessionManager's listener runs its "active" branch
MonitorHandlesActive == appState # "active" /\ appState' = "active" /\ isAuthenticated

\* a step that calls safeLogout
LogoutInvoked == logoutPending' = logoutPending + 1

-----------------------------------------------------------------------------
\* C1 (bypass exactness): a handled return to the foreground that finds the
\* flag set by a call not yet used up keeps the session authenticated and
\* calls no logout, and a handled return that follows one which already used
\* the flag up (with no new call in between) calls the forced logout.
C1_BypassExactness ==
    [][ /\ (HandledForeground /\ photoFlag /\ exempt = "none")
            => (isAuthenticated' /\ ~LogoutInvoked)
        /\ (HandledForeground /\ exempt = "used") => LogoutInvoked ]_vars

\* C2 (flag read at the transition): a return to the foreground of an
\* authenticated session that finds the flag false calls the forced logout,
\* and a called logout leaves the queue only by clearing isAuthenticated.
C2_FlagReadAtTransition ==
    [][ /\ (Foreground /\ isAuthenticated /\ ~photoFlag) => LogoutInvoked
        /\ (isAuthenticated /\ logoutPending' < logoutPending) => ~isAuthenticated' ]_vars

C2_Witness ==
    /\ version = "ref" /\ exempt = "used" /\ ~photoFlag
    /\ appState = "active" /\ isAuthenticated
    /\ logoutPending = 1 /\ countdown = COUNTDOWN_SECONDS

\* C3 (no double consumption): the flag is false right after every return to
\* the foreground that the monitor handled.
C3_NoDoubleConsumption ==
    [][ HandledForeground => ~photoFlag' ]_vars

\* C4 (single writer of authentication): isAuthenticated goes from true to
\* false only in the forced logout's own step and from false to true only in
\* a PIN submission.
C4_SingleWriter ==
    [][ /\ (isAuthenticated /\ ~isAuthenticated') => logoutPending' = logoutPending - 1
        /\ (~isAuthenticated /\ isAuthenticated') => (error' = "" /\ appState = "active") ]_vars

\* C5 (flag write discipline): the flag goes from true to false only in the
\* monitor's handling of a return to the foreground.
C5_FlagWriteDiscipline ==
    [][ (photoFlag /\ ~photoFlag') => MonitorHandlesActive ]_vars

\* the session is authenticated with no countdown showing and auto-lock on
Unlocked == isAuthenticated /\ ~showModal /\ ~timeoutDisabled

\* the warning countdown is running
WarningCountdown == isAuthenticated /\ showModal /\ countdownTimer = "live"

\* C6 (background suspension): a "background" during a running countdown
\* stops the ticker and hides the modal; the return to the foreground that
\* finds no exemption calls the forced logout, and from then until the session
\* ends no tick fires and the modal stays hidden.
C6_BackgroundSuspension ==
    [][ /\ (appState # "background" /\ appState' = "background" /\ WarningCountdown)
            => (countdownTimer' = "none" /\ ~showModal' /\ suspended' = "bg")
        /\ (Foreground /\ suspended = "bg" /\ isAuthenticated /\ ~photoFlag)
            => LogoutInvoked
        /\ suspended = "fg" => (countdown' = countdown /\ ~showModal') ]_vars

C6_Witness ==
    /\ suspended = "fg" /\ appState = "active" /\ isAuthenticated
    /\ logoutPending = 1 /\ countdown < COUNTDOWN_SECONDS

C8_CountdownTerminality ==
    [][ /\ IdleTimerFires => (countdown' = COUNTDOWN_SECONDS /\ ticks' = 0)
        /\ CountdownTick => countdown' = countdown - 1
        /\ CountdownTick => (LogoutInvoked <=> ticks = COUNTDOWN_SECONDS - 1)
        /\ CountdownTick => (LogoutInvoked <=> countdown' = 0)
        /\ (isAuthenticated /\ logoutPending > 0) => (logoutPending' > 0 \/ ~isAuthenticated') ]_vars

C8_Witness ==
    /\ appState = "active" /\ isAuthenticated /\ logoutPending = 1
    /\ countdown = 0 /\ countdownTimer = "none" /\ ~showModal

\* C9 (countdown cancellation): "I'm Still Here" during a running countdown of
\* a session with auto-lock on stops the ticker, hides the modal, leaves the
\* session authenticated, calls no logout and defers a re-arm that, when it
\* runs, arms the idle deadline for the full IDLE_TIME; no interval of the
\* cancelled countdown is left to tick.
C9_CountdownCancellation ==
    [][ /\ (HandleStay /\ WarningCountdown /\ ~timeoutDisabled)
            => /\ countdownTimer' = "none" /\ orphanTickers' = 0 /\ ~tickDue'
               /\ ~showModal' /\ isAuthenticated' /\ ~LogoutInvoked
               /\ [auth |-> TRUE, disabled |-> FALSE] \in stayPending'
        /\ \A c \in stayPending :
              (c \notin stayPending' /\ c.auth /\ ~c.disabled)
              => (idleTimer' = IDLE_TIME /\ elapsed' = 0)
        /\ (countdownTimer = "none" /\ countdownTimer' = "live") => IdleTimerFires ]_vars

C9_Witness ==
    /\ appState = "active" /\ isAuthenticated /\ ~showModal /\ ~timeoutDisabled
    /\ countdownTimer = "none" /\ countdown < COUNTDOWN_SECONDS /\ countdown > 0
    /\ idleTimer = IDLE_TIME /\ stayPending = {} /\ logoutPending = 0

\* C10 (lifecycle invariant): whenever the app is in the background and the
\* monitor handled the "background" report, no idle deadline is scheduled and
\* no countdown ticker is running.
C10_LifecycleInvariant ==
    (appState = "background" /\ handledBg)
        => (idleTimer = NoTimer /\ countdownTimer = "none")

\* C11 (unauthenticated transitions are no-ops): a "background" or "active"
\* report delivered while isAuthenticated is false leaves it false, leaves the
\* flag, both timers, the modal and the count as they were, and calls neither
\* the forced logout nor the navigation.
C11_UnauthenticatedNoOp ==
    [][ (appState' # appState /\ appState' \in {"background", "active"} /\ ~isAuthenticated)
        => /\ ~isAuthenticated'
           /\ photoFlag' = photoFlag
           /\ idleTimer' = idleTimer /\ countdownTimer' = countdownTimer
           /\ showModal' = showModal /\ countdown' = countdown
           /\ logoutPending' = logoutPending /\ navPending' = navPending ]_vars

C11_Witness ==
    /\ appState = "background" /\ ~handledBg /\ ~isAuthenticated
    /\ photoFlag /\ logoutPending = 0 /\ navPending = 0

\* C12 (PIN gate): at the gate with a loaded stored PIN, submitting that PIN
\* sets isAuthenticated; submitting any other PIN leaves it false, empties the
\* input, sets the error message and leaves the gate as it was, open to the
\* next attempt.
C12_PinGate ==
    [][ \A p \in Pins, q \in Pins, saveOk \in BOOLEAN :
          (Submit(p, q, saveOk) /\ ~isCreating /\ storedPin # NoPin)
          => IF p = storedPin
             THEN isAuthenticated'
             ELSE /\ ~isAuthenticated' /\ pin' = NoPin /\ error' = "Incorrect PIN"
                  /\ ~isCreating' /\ storedPin' = storedPin /\ securePin' = securePin
                  /\ appState' = appState /\ showModal' = showModal
                  /\ idleTimer' = idleTimer /\ countdownTimer' = countdownTimer ]_vars

C12_Witness ==
    /\ ~isAuthenticated /\ ~isCreating /\ storedPin # NoPin
    /\ pin = NoPin /\ error = "Incorrect PIN" /\ appState = "active" /\ ~showModal

\* C13 (stored PIN only): once a PIN is stored, the session becomes
\* authenticated only by a submission of that PIN, which leaves the stored
\* PIN as it is.
C13_StoredPinOnly ==
    [][ \A p \in Pins, q \in Pins, saveOk \in BOOLEAN :
          (Submit(p, q, saveOk) /\ isAuthenticated' /\ securePin # NoPin)
          => (p = securePin /\ securePin' = securePin /\ ~isCreating) ]_vars

\* C14 (no false positives): a handled return to the foreground that does not
\* end a camera or gallery round trip calls the forced logout.
C14_NoFalsePositives ==
    [][ (HandledForeground /\ camera # "open") => LogoutInvoked ]_vars

\* a step that runs safeLogout's deferred setAuthenticated(false)
LogoutRuns == logoutPending' = logoutPending - 1

C16_SetExemptIdempotent ==
    [][ /\ (photoFlag /\ (camera' = "launching" \/ mounted' # mounted) /\ isAuthenticated')
            => photoFlag'
        /\ (HandledForeground /\ photoFlag /\ isAuthenticated' /\ logoutPending' = logoutPending)
            => ~photoFlag' ]_vars

\* a step that runs safeLogout's navigation callback
NavigateRuns == navPending' = navPending - 1

\* C17 (forced logout sequencing): the call hides the modal and schedules no
\* navigation yet; the navigation is scheduled only by the deferred step, which
\* clears isAuthenticated in the same step, and is issued only after it; while
\* steps of a logout are outstanding nothing but a PIN submission on the PIN
\* screen makes the session authenticated again.
C17_LogoutSequencing ==
    [][ /\ LogoutInvoked => (~showModal' /\ navPending' = navPending)
        /\ LogoutRuns => (~isAuthenticated' /\ navPending' = navPending + 1)
        /\ navPending' > navPending => LogoutRuns
        /\ NavigateRuns => (navPending > 0 /\ isAuthenticated' = isAuthenticated)
        /\ (~isAuthenticated /\ isAuthenticated' /\ logoutPending + navPending > 0)
            => (appState = "active" /\ ~showModal /\ securePin' # NoPin /\ error' = "") ]_vars

C17_Witness ==
    /\ logoutPending = 0 /\ navPending = 1 /\ ~isAuthenticated
    /\ ~showModal /\ mounted = {} /\ securePin # NoPin

\* C18 (idle deadline after an exempt return): a handled return to the
\* foreground that skips the forced logout leaves an idle deadline armed,
\* unless the timeout is disabled.
C18_ExemptReturnArmsIdle ==
    [][ (HandledForeground /\ photoFlag /\ ~timeoutDisabled /\ isAuthenticated')
        => idleTimer' # NoTimer ]_vars

\* C19 (nothing survives the session): while isAuthenticated is false no idle
\* timer is scheduled, no countdown ticker is running and the modal is hidden.
C19_UnauthenticatedQuiescent ==
    ~isAuthenticated => (idleTimer = NoTimer /\ countdownTimer = "none" /\ ~showModal)

\* C20 (no duplicate timers): no interval outlives the ref that pointed to it;
\* the idle timeout's callback starts the countdown only when no ticker is
\* running; a scheduled idle timeout is the only one, counting its full
\* IDLE_TIME from its arming; and the count goes down only by a due tick, by
\* one, once per tick interval.
C20_NoDuplicateTimers ==
    [][ /\ orphanTickers' = 0
        /\ (idleTimer = 0 /\ idleTimer' = NoTimer /\ countdownTimer' = "live")
            => countdownTimer = "none"
        /\ idleTimer' # NoTimer => elapsed' + idleTimer' = IDLE_TIME
        /\ countdown' < countdown
            => (countdown' = countdown - 1 /\ tickDue /\ ~tickDue') ]_vars

C20_Witness ==
    /\ countdownTimer = "live" /\ showModal /\ ticks >= 2
    /\ countdown = COUNTDOWN_SECONDS - ticks /\ orphanTickers = 0 /\ idleTimer = NoTimer

\* C21 (debounce during the warning): while the countdown is running in the
\* foreground, handleUserInteraction leaves the idle timer as it is, a step
\* that is no tick, no passing of time, no deferred callback and no visibility
\* change keeps idle timer, count, ticker and modal, and the session becomes
\* Unlocked in the foreground without a logout only through handleStay.
C21_DebounceDuringWarning ==
    [][ (WarningCountdown /\ appState = "active")
        => /\ handleUserInteraction(isAuthenticated, timeoutDisabled, showModal, idleTimer)
                = idleTimer
           /\ (/\ tickDue' = tickDue /\ stayPending' = stayPending
               /\ appState' = appState /\ isAuthenticated' /\ showModal')
              => (/\ idleTimer' = idleTimer /\ countdown' = countdown
                  /\ countdownTimer' = "live")
           /\ (Unlocked' /\ appState' = "active" /\ logoutPending' = logoutPending)
              => (/\ [auth |-> TRUE, disabled |-> timeoutDisabled] \in stayPending'
                  /\ countdownTimer' = "none" /\ idleTimer' = idleTimer) ]_vars

C21_Witness ==
    /\ WarningCountdown /\ appState = "active" /\ countdown = COUNTDOWN_SECONDS - 1
    /\ tickDue /\ idleTimer = NoTimer /\ stayPending = {}

C23_WarningEndsLocked ==
    [][ /\ (WarningCountdown /\ ~WarningCountdown' /\ isAuthenticated')
            => \/ [auth |-> TRUE, disabled |-> timeoutDisabled] \in stayPending'
               \/ LogoutInvoked
               \/ appState' = "background"
        /\ (Foreground /\ suspended = "bg" /\ isAuthenticated)
            => (LogoutInvoked \/ ~isAuthenticated') ]_vars

\* C24 (the exemption ends with the session): when a PIN submission starts a
\* session, and every reset scheduled by an unmounted screen has run, the flag
\* is clear.
C24_NoStaleExemption ==
    [][ (~isAuthenticated /\ isAuthenticated' /\ resetPending = 0) => ~photoFlag' ]_vars

\* C25 (screen-scoped flag): in the isPhotoOperationScreenRef revision the
\* flag is true whenever RegisterScreen or MemberDetailScreen is mounted.
C25_MountedImpliesFlag ==
    (version = "screen" /\ mounted # {}) => photoFlag

\* C26 (only a return from the background counts): an "active" that follows
\* "inactive", with no "background" in between, calls no forced logout, keeps
\* the session authenticated and leaves the flag as it is.
C26_OnlyAfterBackground ==
    [][ (appState = "inactive" /\ appState' = "active" /\ isAuthenticated)
        => (/\ logoutPending' = logoutPending /\ isAuthenticated'
            /\ photoFlag' = photoFlag) ]_vars

\* C27 (no frozen modal): the countdown modal is shown only while the
\* countdown ticker is running.
C27_ModalOnlyWhileTicking ==
    showModal => countdownTimer = "live"

-----------------------------------------------------------------------------
\* The data layer: database functions and AppProvider's operations

\* bounds
MaxId == 2
MaxList == 2
Amounts == {50, 80}

\* `const maxRetries = 3` of addAttendance and addSale
maxRetries == 3

Ids == 1..MaxId

\* Date.now(), the temporary id addMember builds its first QR code from
tempId == MaxId + 1

\* generateQRCode(id): "GYM-" followed by the id padded to six digits
generateQRCode(id) == <<"GYM", id>>

\* result.lastInsertRowId of an INSERT that names no id into a table declared
\* `id INTEGER PRIMARY KEY`: one more than the largest id in the table
lastInsertRowId(rows) ==
    IF rows = {} THEN 1
    ELSE (CHOOSE r \in rows : \A q \in rows : q.id <= r.id).id + 1

\* SELECT * ... ORDER BY id DESC
RECURSIVE orderByIdDesc(_)
orderByIdDesc(rows) ==
    IF rows = {} THEN <<>>
    ELSE LET top == CHOOSE r \in rows : \A q \in rows : q.id <= r.id
         IN <<top>> \o orderByIdDesc(rows \ {top})

\* the loop's test after a failed insert: `if (retries >= maxRetries) throw error`
attemptsExhausted_late(retries) == retries >= maxRetries + 1
attemptsExhausted(retries) == retries >= maxRetries

\* deleteMember's setState: the lists after the member was deleted from the store
deleteFromState(id, ms, as) ==
    [members |-> SelectSeq(ms, LAMBDA m : m.id # id), attendance |-> as]

\* restoreFromBackup's loops: insertMember / insertAttendance / insertSale for
\* every record of the backup in its order, the inserts whose index is in
\* `failed` throwing (caught and logged); the row takes the id the store assigns
RECURSIVE restoreRows(_, _, _, _)
restoreRows(rows, records, failed, i) ==
    IF i > Len(records) THEN rows
    ELSE IF i \in failed THEN restoreRows(rows, records, failed, i + 1)
    ELSE restoreRows(rows \cup {[records[i] EXCEPT !.id = lastInsertRowId(rows)]},
                     records, failed, i + 1)

Range(seq) == {seq[i] : i \in DOMAIN seq}

\* addMember: insertMember with a temporary QR code, updateMemberById with the
\* final one, then the new member is prepended
AddMember ==
    \E isMember \in {0, 1}, insertOk \in BOOLEAN, updateOk \in BOOLEAN :
        LET id == lastInsertRowId(dbMembers)
            row == [id |-> id, qr_code |-> generateQRCode(tempId), is_member |-> isMember]
            final == [row EXCEPT !.qr_code = generateQRCode(id)]
        IN /\ adding = NoAdd
           /\ id <= MaxId
           /\ Len(members) < MaxList
           /\ dbMembers' = IF ~insertOk THEN dbMembers
                           ELSE IF ~updateOk THEN dbMembers \cup {row}
                           ELSE dbMembers \cup {final}
           /\ members' = IF insertOk /\ updateOk THEN <<final>> \o members ELSE members
           /\ last' = [op |-> "addMember", ok |-> insertOk /\ updateOk]
           /\ UNCHANGED <<dbAttendance, dbSales, attendance, sales, adding, backup>>
           /\ UNCHANGED sessionVars

\* updateMember(id, {is_member}): updateMemberById, then the list is mapped
UpdateMember ==
    \E id \in Ids, v \in {0, 1}, ok \in BOOLEAN :
        /\ adding = NoAdd
        /\ members # <<>>
        /\ dbMembers' = IF ok
                        THEN {IF r.id = id THEN [r EXCEPT !.is_member = v] ELSE r : r \in dbMembers}
                        ELSE dbMembers
        /\ members' = IF ok
                      THEN [i \in DOMAIN members |->
                              IF members[i].id = id THEN [members[i] EXCEPT !.is_member = v]
                              ELSE members[i]]
                      ELSE members
        /\ last' = [op |-> "updateMember", ok |-> ok]
        /\ UNCHANGED <<dbAttendance, dbSales, attendance, sales, adding, backup>>
        /\ UNCHANGED sessionVars

\* deleteMember(id): deleteMemberById deletes the member's row and the
\* attendance rows of that member, then the list is filtered
DeleteMember ==
    \E id \in Ids, ok \in BOOLEAN :
        /\ adding = NoAdd
        /\ members # <<>>
        /\ dbMembers' = IF ok THEN {r \in dbMembers : r.id # id} ELSE dbMembers
        /\ dbAttendance' = IF ok THEN {r \in dbAttendance : r.member_id # id} ELSE dbAttendance
        /\ members' = IF ok THEN deleteFromState(id, members, attendance).members ELSE members
        /\ attendance' = IF ok THEN deleteFromState(id, members, attendance).attendance
                         ELSE attendance
        /\ last' = [op |-> "deleteMember", ok |-> ok]
        /\ UNCHANGED <<dbSales, sales, adding, backup>>
        /\ UNCHANGED sessionVars

\* addAttendance(memberId) is called: attendanceData is built, retries = 0
AddAttendance ==
    \E memberId \in Ids :
        /\ adding = NoAdd
        /\ Len(attendance) < MaxList
        /\ lastInsertRowId(dbAttendance) <= MaxId
        /\ adding' = [kind |-> "attendance", data |-> [member_id |-> memberId], retries |-> 0]
        /\ UNCHANGED <<dbMembers, dbAttendance, dbSales, members, attendance, sales,
                       backup, last>>
        /\ UNCHANGED sessionVars

\* addSale(type, amount, note) is called: saleData is built, retries = 0
AddSale ==
    \E amount \in Amounts :
        /\ adding = NoAdd
        /\ Len(sales) < MaxList
        /\ lastInsertRowId(dbSales) <= MaxId
        /\ adding' = [kind |-> "sale", data |-> [amount |-> amount], retries |-> 0]
        /\ UNCHANGED <<dbMembers, dbAttendance, dbSales, members, attendance, sales,
                       backup, last>>
        /\ UNCHANGED sessionVars

\* one pass of the retry loop: the insert is tried; if it succeeds the loop
\* ends and the record is prepended with the id the store returned; if it
\* throws, retries goes up and the error is rethrown once the attempts are used up
InsertAttempt ==
    \E insertOk \in BOOLEAN :
        /\ adding # NoAdd
        /\ LET table == IF adding.kind = "sale" THEN dbSales ELSE dbAttendance
               id == lastInsertRowId(table)
               rec == IF adding.kind = "sale"
                      THEN [id |-> id, amount |-> adding.data.amount]
                      ELSE [id |-> id, member_id |-> adding.data.member_id]
               retries == adding.retries + 1
           IN IF insertOk
              THEN /\ dbSales' = IF adding.kind = "sale" THEN dbSales \cup {rec} ELSE dbSales
                   /\ dbAttendance' = IF adding.kind = "attendance"
                                      THEN dbAttendance \cup {rec} ELSE dbAttendance
                   /\ sales' = IF adding.kind = "sale" THEN <<rec>> \o sales ELSE sales
                   /\ attendance' = IF adding.kind = "attendance"
                                    THEN <<rec>> \o attendance ELSE attendance
                   /\ adding' = NoAdd
                   /\ last' = [op |-> adding.kind, ok |-> TRUE]
              ELSE /\ UNCHANGED <<dbSales, dbAttendance, sales, attendance>>
                   /\ IF attemptsExhausted(retries)
                      THEN /\ adding' = NoAdd
                           /\ last' = [op |-> adding.kind, ok |-> FALSE]
                      ELSE /\ adding' = [adding EXCEPT !.retries = retries]
                           /\ UNCHANGED last
        /\ UNCHANGED <<dbMembers, members, backup>>
        /\ UNCHANGED sessionVars

\* backupAllData: the lists as JSON; JSON.parse of that string gives back
\* records with the same fields and values
BackupAllData ==
    /\ adding = NoAdd
    /\ backup' = [taken |-> TRUE, members |-> members, attendance |-> attendance,
                  sales |-> sales]
    /\ last' = [op |-> "backup", ok |-> TRUE]
    /\ UNCHANGED <<dbMembers, dbAttendance, dbSales, members, attendance, sales, adding>>
    /\ UNCHANGED sessionVars

\* restoreFromBackup(backup): clearAllData, the three insert loops, then
\* loadDataFromDatabase reads the lists back
RestoreFromBackup ==
    \E clearOk \in BOOLEAN,
       fm \in SUBSET (1..MaxList), fa \in SUBSET (1..MaxList), fs \in SUBSET (1..MaxList) :
        /\ backup.taken
        /\ adding = NoAdd
        /\ fm \subseteq DOMAIN backup.members
        /\ fa \subseteq DOMAIN backup.attendance
        /\ fs \subseteq DOMAIN backup.sales
        /\ ~clearOk => (fm = {} /\ fa = {} /\ fs = {})
        /\ IF clearOk
           THEN /\ dbMembers' = restoreRows({}, backup.members, fm, 1)
                /\ dbAttendance' = restoreRows({}, backup.attendance, fa, 1)
                /\ dbSales' = restoreRows({}, backup.sales, fs, 1)
                /\ members' = orderByIdDesc(dbMembers')
                /\ attendance' = orderByIdDesc(dbAttendance')
                /\ sales' = orderByIdDesc(dbSales')
           ELSE UNCHANGED <<dbMembers, dbAttendance, dbSales, members, attendance, sales>>
        /\ last' = [op |-> "restore", ok |-> clearOk]
        /\ UNCHANGED <<adding, backup>>
        /\ UNCHANGED sessionVars

DataInit ==
    /\ Init
    /\ version = "screen" /\ ~lifecycle /\ securePin = NoPin

DataNext ==
    \/ AddMember
    \/ UpdateMember
    \/ DeleteMember
    \/ AddAttendance
    \/ AddSale
    \/ InsertAttempt

BackupNext ==
    \/ ~backup.taken /\ AddMember
    \/ ~backup.taken /\ UpdateMember
    \/ ~backup.taken /\ DeleteMember
    \/ ~backup.taken /\ AddAttendance
    \/ ~backup.taken /\ AddSale
    \/ InsertAttempt
    \/ ~backup.taken /\ BackupAllData
    \/ RestoreFromBackup

SpecBackup == DataInit /\ [][BackupNext]_vars

SpecData == DataInit /\ [][DataNext]_vars

-----------------------------------------------------------------------------
\* the table and the list addAttendance / addSale work on, and the record the
\* call in flight would add
AddingTable == IF adding.kind = "sale" THEN dbSales ELSE dbAttendance
AddingList == IF adding.kind = "sale" THEN sales ELSE attendance
AddingRecord ==
    IF adding.kind = "sale"
    THEN [id |-> lastInsertRowId(dbSales), amount |-> adding.data.amount]
    ELSE [id |-> lastInsertRowId(dbAttendance), member_id |-> adding.data.member_id]

\* C28 (bounded retry): addSale and addAttendance try the insert at most
\* maxRetries times; a failed attempt that is not the last changes neither
\* table nor list; the call ends either with a successful insert, whose row,
\* with the id the store returned, is prepended once to its list, or with the
\* failure of attempt maxRetries, tables and lists unchanged.
C28_BoundedRetry ==
    [][ /\ adding'.kind # "none" => adding'.retries < maxRetries
        /\ (adding.kind # "none" /\ adding'.kind # "none")
            => /\ adding'.retries = adding.retries + 1
               /\ UNCHANGED <<dbSales, dbAttendance, sales, attendance>>
        /\ (adding.kind # "none" /\ adding'.kind = "none")
            => \/ /\ last' = [op |-> adding.kind, ok |-> TRUE]
                  /\ IF adding.kind = "sale"
                     THEN /\ dbSales' = dbSales \cup {AddingRecord}
                          /\ sales' = <<AddingRecord>> \o sales
                          /\ UNCHANGED <<dbAttendance, attendance>>
                     ELSE /\ dbAttendance' = dbAttendance \cup {AddingRecord}
                          /\ attendance' = <<AddingRecord>> \o attendance
                          /\ UNCHANGED <<dbSales, sales>>
                  /\ AddingRecord \notin AddingTable
               \/ /\ last' = [op |-> adding.kind, ok |-> FALSE]
                  /\ adding.retries = maxRetries - 1
                  /\ UNCHANGED <<dbSales, dbAttendance, sales, attendance>> ]_vars

C28_Witness ==
    /\ adding.kind = "none" /\ last = [op |-> "sale", ok |-> FALSE]
    /\ sales # <<>> /\ Range(sales) = dbSales /\ attendance # <<>>

\* a list holds exactly the rows of its table, each once
sameRecords(list, table) == Range(list) = table /\ Len(list) = Cardinality(table)

ListsMatchStore ==
    /\ sameRecords(members, dbMembers)
    /\ sameRecords(attendance, dbAttendance)
    /\ sameRecords(sales, dbSales)

\* C29 (lists mirror the store): an operation that returns normally while the
\* lists hold the records of the store leaves them holding the records of the
\* store.
C29_ListsMirrorStore ==
    [][ (ListsMatchStore /\ last'.ok) => ListsMatchStore' ]_vars

\* C30 (backup and restore round trip): after a restoreFromBackup that
\* returned normally, members, attendance and sales hold the records of the
\* backup with their ids, every attendance record refers to a member in the
\* list, and every member's qr_code is the code generated from its id.
C30_RoundTrip ==
    (last = [op |-> "restore", ok |-> TRUE])
    => /\ Range(members) = Range(backup.members)
       /\ Range(attendance) = Range(backup.attendance)
       /\ Range(sales) = Range(backup.sales)
       /\ \A m \in Range(members) : m.qr_code = generateQRCode(m.id)
       /\ \A a \in Range(attendance) :
            (\E m \in Range(backup.members) : m.id = a.member_id)
            => (\E m \in Range(members) : m.id = a.member_id)

====
